---- MODULE Spec2Model ----
(***************************************************************************)
(* Model of the note service of plsnb.py: the note store, the per-user     *)
(* Redis cache of the note list, the link extractor, the stub materializer *)
(* and the request handlers, each handler split at its database and Redis  *)
(* calls so that requests of several clients interleave.                   *)
(*                                                                         *)
(* Text is a sequence of one-character strings.  A list of notes returned  *)
(* by a query without ORDER BY is modelled as the set of its rows.         *)
(***************************************************************************)
EXTENDS Integers, Sequences, FiniteSets, TLC

VARIABLES store, nextId, cache, req, fresh, out

vars == <<store, nextId, cache, req, fresh, out>>

(***************************************************************************)
(* Bounds                                                                  *)
(***************************************************************************)
\* uuid4() values available to a run: ids are 1..MaxId
MaxId == 3

\* uuid4() values available to the runs of SpecRelink
MaxIdRelink == 4

Users == {1, 2}
Slots == {1, 2}
Ids == 1..MaxId

\* ex=60 of redis_client.set
CacheTTL == 60

LB == "["
RB == "]"
SP == " "

\* titles a client may send
TitleIn == { <<"A">>, <<"B">> }

\* contents a client may send
ContentIn ==
  { <<>>,
    <<LB, LB, "B", RB, RB, LB, LB, "B", RB, RB>>,
    <<LB, LB, SP, "B", SP, RB, RB, LB, LB, SP, RB, RB>> }

(***************************************************************************)
(* utils.extract_links: re.findall(r"\[\[([^\]]+)\]\]", content)           *)
(***************************************************************************)
\* first index k >= j with s[k] = "]", or Len(s)+1: the end of the greedy [^\]]+
RECURSIVE RunEnd(_, _)
RunEnd(s, j) ==
  IF j > Len(s) THEN j
  ELSE IF s[j] = RB THEN j
  ELSE RunEnd(s, j + 1)

\* the pattern matches at position i: "[[", one or more non-"]", "]]"
MatchAt(s, i) ==
  /\ i + 1 <= Len(s)
  /\ s[i] = LB
  /\ s[i + 1] = LB
  /\ RunEnd(s, i + 2) > i + 2
  /\ RunEnd(s, i + 2) + 1 <= Len(s)
  /\ s[RunEnd(s, i + 2)] = RB
  /\ s[RunEnd(s, i + 2) + 1] = RB

RECURSIVE FindAll(_, _)
FindAll(s, i) ==
  IF i > Len(s) THEN <<>>
  ELSE IF MatchAt(s, i)
       THEN <<SubSeq(s, i + 2, RunEnd(s, i + 2) - 1)>>
              \o FindAll(s, RunEnd(s, i + 2) + 2)
       ELSE FindAll(s, i + 1)

extract_links(content) == FindAll(content, 1)

\* the titles of a list, as a set (title in list, Note.title.in_(list))
Range(q) == { q[i] : i \in DOMAIN q }

(***************************************************************************)
(* str.strip()                                                             *)
(***************************************************************************)
RECURSIVE lstrip(_)
lstrip(s) ==
  IF s = <<>> THEN s
  ELSE IF Head(s) = SP THEN lstrip(Tail(s))
  ELSE s

RECURSIVE rstrip(_)
rstrip(s) ==
  IF s = <<>> THEN s
  ELSE IF s[Len(s)] = SP THEN rstrip(SubSeq(s, 1, Len(s) - 1))
  ELSE s

strip(s) == rstrip(lstrip(s))

(***************************************************************************)
(* The notes table (models.Note) and its queries                           *)
(***************************************************************************)
Note(id, title, content, user_id) ==
  [id |-> id, title |-> title, content |-> content, user_id |-> user_id]

\* db.query(Note).filter(Note.user_id == u).all()
NotesOf(st, u) == { n \in st : n.user_id = u }

\* db.query(Note).filter(Note.user_id == u, Note.title == t)
ByTitle(st, u, t) == { n \in st : n.user_id = u /\ n.title = t }

\* ById without the filter on the owner
ById_any_owner(st, u, id) == { n \in st : n.id = id }

\* db.query(Note).filter(Note.id == id, Note.user_id == u)
ById(st, u, id) == { n \in st : n.id = id /\ n.user_id = u }

(***************************************************************************)
(* The Redis value of a note list: json.dumps(safe_serialize(result)) and  *)
(* back (json.loads, then the response_model validation of schemas.Note)   *)
(***************************************************************************)
\* str(v) of a UUID
UuidStr(i) == <<"uuid", i>>

\* UUID(s): schemas.Note parses id and user_id back
ParseUuid(x) == x[2]

safe_serialize(notes) ==
  { [id |-> UuidStr(n.id), title |-> n.title, content |-> n.content,
     user_id |-> UuidStr(n.user_id)] : n \in notes }

json_loads(value) ==
  { [id |-> ParseUuid(d.id), title |-> d.title, content |-> d.content,
     user_id |-> ParseUuid(d.user_id)] : d \in value }

\* redis_client.get of a key that is not set
NoEntry == [present |-> FALSE]

\* redis_client.set(cache_key, value, ex=60); stale records whether a commit on
\* the user's notes happened after the list in value was read from the store
Entry(value, stale) ==
  [present |-> TRUE, value |-> value, ex |-> CacheTTL, stale |-> stale]

(***************************************************************************)
(* Requests                                                                *)
(***************************************************************************)
\* a request in progress: its handler's position and local variables
Idle ==
  [op |-> "none", pc |-> "idle", user |-> 0, note_id |-> 0, title |-> <<>>,
   content |-> <<>>, linked |-> <<>>, titles |-> <<>>, pending |-> <<>>,
   old |-> {}, result |-> {}, stale |-> FALSE, wrote |-> FALSE,
   first |-> FALSE]

InFlight(s) == req[s].pc # "idle"

\* what the step just taken sent to its client, None when it sent nothing
None ==
  [op |-> "none", user |-> 0, note_id |-> 0, status |-> "", old |-> {},
   result |-> {}, outgoing |-> {}, outgoing_links |-> <<>>, backlinks |-> {},
   hit |-> FALSE, stale |-> FALSE, wrote |-> FALSE, first |-> FALSE]

Response(op, u, id, status, result) ==
  [None EXCEPT !.op = op, !.user = u, !.note_id = id, !.status = status,
     !.result = result]

\* the response of the request r that ends with status
Ends(r, status) ==
  [Response(r.op, r.user, r.note_id, status, r.result) EXCEPT
     !.old = r.old, !.stale = r.stale, !.wrote = r.wrote, !.first = r.first]

\* a commit on the notes of u overtakes the cache entry of u and the lists
\* that get_notes requests of u have read and not yet cached
Overtake(c, u) ==
  [c EXCEPT ![u] = IF @.present THEN [@ EXCEPT !.stale = TRUE] ELSE @]

OvertakeReq(r, u) ==
  [s \in Slots |->
     IF r[s].op = "get_notes" /\ r[s].user = u /\ r[s].pc = "set"
     THEN [r[s] EXCEPT !.stale = TRUE]
     ELSE r[s]]

\* the step after the note of a create or update is committed and refreshed:
\* process_links_for_note calls upsert_stub_notes only for a non-empty list
AfterWrite(content) ==
  IF extract_links(content) # <<>> THEN "links" ELSE "invalidate"

Init ==
  /\ store = {}
  /\ nextId = 1
  /\ cache = [u \in Users |-> NoEntry]
  /\ req = [s \in Slots |-> Idle]
  /\ fresh = [u \in Users |-> FALSE]
  /\ out = None

\* POST /notes/: the note is added, committed and refreshed (lines 144-147);
\* ok = FALSE is a commit that raises
create_note(s, u, t, c, ok, N) ==
  /\ ~InFlight(s)
  /\ IF ok
     THEN /\ nextId <= N
          /\ store' = store \cup {Note(nextId, t, c, u)}
          /\ nextId' = nextId + 1
          /\ cache' = Overtake(cache, u)
          /\ req' = [OvertakeReq(req, u) EXCEPT ![s] =
               [Idle EXCEPT !.op = "create_note", !.pc = AfterWrite(c),
                  !.user = u, !.note_id = nextId,
                  !.linked = extract_links(c), !.titles = extract_links(c),
                  !.wrote = TRUE, !.result = {Note(nextId, t, c, u)}]]
          /\ out' = None
     ELSE /\ out' = Response("create_note", u, 0, "store_failure", {})
          /\ UNCHANGED <<store, nextId, cache, req>>
  /\ UNCHANGED fresh

\* upsert_iter with the stub titled by the title as extracted, not stripped
upsert_iter_unstripped(st, u, raw, pending) ==
  IF strip(raw) = <<>> THEN pending
  ELSE IF ByTitle(st, u, strip(raw)) = {} THEN Append(pending, raw)
  ELSE pending

\* one iteration of the loop of upsert_stub_notes (lines 65-81): the titles of
\* the stubs added so far, after the iteration for the title raw.  The query
\* reads the committed rows st: the session (autoflush=False) has not flushed
\* the stubs it added
upsert_iter(st, u, raw, pending) ==
  LET title == strip(raw)
  IN IF title = <<>> THEN pending
     ELSE IF ByTitle(st, u, title) = {} THEN Append(pending, title)
     ELSE pending

upsert_lookup(s) ==
  /\ req[s].pc = "links"
  /\ req[s].titles # <<>>
  /\ req' = [req EXCEPT
       ![s].titles = Tail(@),
       ![s].pending = upsert_iter(store, req[s].user, Head(req[s].titles), @),
       ![s].pc = IF Tail(req[s].titles) = <<>> THEN "stub_commit" ELSE "links"]
  /\ out' = None
  /\ UNCHANGED <<store, nextId, cache, fresh>>

\* the rows db.commit() of upsert_stub_notes inserts for the added stubs
Stubs(pending, u, first) ==
  { Note(first + i - 1, pending[i], <<>>, u) : i \in DOMAIN pending }

\* db.commit() of upsert_stub_notes (line 82); ok = FALSE is a commit that
\* raises, after which the handler does not reach invalidate_notes_cache
upsert_commit(s, ok, N) ==
  /\ req[s].pc = "stub_commit"
  /\ IF ok
     THEN /\ nextId + Len(req[s].pending) - 1 <= N
          /\ store' = store \cup Stubs(req[s].pending, req[s].user, nextId)
          /\ nextId' = nextId + Len(req[s].pending)
          /\ cache' = IF req[s].pending # <<>>
                      THEN Overtake(cache, req[s].user) ELSE cache
          /\ req' = [(IF req[s].pending # <<>>
                      THEN OvertakeReq(req, req[s].user) ELSE req)
                     EXCEPT ![s].pc = "invalidate", ![s].pending = <<>>]
          /\ out' = None
     ELSE /\ req' = [req EXCEPT ![s] = Idle]
          /\ out' = Ends(req[s], "store_failure")
          /\ UNCHANGED <<store, nextId, cache>>
  /\ UNCHANGED fresh

\* invalidate_notes_cache that leaves the cache key in place
invalidate_skipped(s) ==
  /\ req[s].pc = "invalidate"
  /\ req' = [req EXCEPT ![s] = Idle]
  /\ out' = Ends(req[s], "ok")
  /\ fresh' = [fresh EXCEPT ![req[s].user] = TRUE]
  /\ UNCHANGED <<store, nextId, cache>>

\* invalidate_notes_cache, the last call of create, update and delete, and
\* the response
invalidate_notes_cache(s) ==
  /\ req[s].pc = "invalidate"
  /\ cache' = [cache EXCEPT ![req[s].user] = NoEntry]
  /\ req' = [req EXCEPT ![s] = Idle]
  /\ out' = Ends(req[s], "ok")
  /\ fresh' = [fresh EXCEPT ![req[s].user] = TRUE]
  /\ UNCHANGED <<store, nextId>>

\* PUT /notes/{note_id}: the lookup (lines 163-165)
update_note(s, u, id, t, c) ==
  /\ ~InFlight(s)
  /\ IF ById(store, u, id) = {}
     THEN /\ out' = Response("update_note", u, id, "not_found", {})
          /\ UNCHANGED req
     ELSE /\ req' = [req EXCEPT ![s] =
               [Idle EXCEPT !.op = "update_note", !.pc = "write", !.user = u,
                  !.note_id = id, !.title = t, !.content = c,
                  !.old = ById(store, u, id)]]
          /\ out' = None
  /\ UNCHANGED <<store, nextId, cache, fresh>>

\* PUT /notes/{note_id}: the row is rewritten, committed and refreshed
\* (lines 167-170); the UPDATE of a row deleted meanwhile raises, as does a
\* commit with ok = FALSE
update_commit(s, ok) ==
  /\ req[s].pc = "write"
  /\ req[s].op = "update_note"
  /\ LET u == req[s].user
         new == Note(req[s].note_id, req[s].title, req[s].content, u)
     IN IF ok /\ ById(store, u, req[s].note_id) # {}
        THEN /\ store' = (store \ ById(store, u, req[s].note_id)) \cup {new}
             /\ cache' = Overtake(cache, u)
             /\ req' = [OvertakeReq(req, u) EXCEPT
                  ![s].pc = AfterWrite(req[s].content),
                  ![s].linked = extract_links(req[s].content),
                  ![s].titles = extract_links(req[s].content),
                  ![s].title = <<>>, ![s].content = <<>>,
                  ![s].wrote = TRUE, ![s].result = {new}]
             /\ out' = None
        ELSE /\ req' = [req EXCEPT ![s] = Idle]
             /\ out' = Ends(req[s], "store_failure")
             /\ UNCHANGED <<store, cache>>
  /\ UNCHANGED <<nextId, fresh>>

\* DELETE /notes/{note_id}: the lookup (lines 183-185)
delete_note(s, u, id) ==
  /\ ~InFlight(s)
  /\ IF ById(store, u, id) = {}
     THEN /\ out' = Response("delete_note", u, id, "not_found", {})
          /\ UNCHANGED req
     ELSE /\ req' = [req EXCEPT ![s] =
               [Idle EXCEPT !.op = "delete_note", !.pc = "write", !.user = u,
                  !.note_id = id, !.old = ById(store, u, id)]]
          /\ out' = None
  /\ UNCHANGED <<store, nextId, cache, fresh>>

\* delete_commit that also deletes the notes the deleted note links to
delete_commit_cascade(s, ok) ==
  /\ req[s].pc = "write"
  /\ req[s].op = "delete_note"
  /\ LET u == req[s].user
         gone == ById(store, u, req[s].note_id)
     IN IF ok
        THEN /\ store' = { m \in store \ gone :
                              \/ m.user_id # u
                              \/ \A n \in gone :
                                   m.title \notin Range(extract_links(n.content)) }
             /\ cache' = Overtake(cache, u)
             /\ req' = [OvertakeReq(req, u) EXCEPT
                  ![s].pc = "invalidate", ![s].wrote = TRUE]
             /\ out' = None
        ELSE /\ req' = [req EXCEPT ![s] = Idle]
             /\ out' = Ends(req[s], "store_failure")
             /\ UNCHANGED <<store, cache>>
  /\ UNCHANGED <<nextId, fresh>>

\* DELETE /notes/{note_id}: db.delete(note); db.commit() (lines 186-187)
delete_commit(s, ok) ==
  /\ req[s].pc = "write"
  /\ req[s].op = "delete_note"
  /\ LET u == req[s].user
     IN IF ok
        THEN /\ store' = store \ ById(store, u, req[s].note_id)
             /\ cache' = Overtake(cache, u)
             /\ req' = [OvertakeReq(req, u) EXCEPT
                  ![s].pc = "invalidate", ![s].wrote = TRUE]
             /\ out' = None
        ELSE /\ req' = [req EXCEPT ![s] = Idle]
             /\ out' = Ends(req[s], "store_failure")
             /\ UNCHANGED <<store, cache>>
  /\ UNCHANGED <<nextId, fresh>>

\* GET /notes: redis_client.get and the cache hit (lines 127-130)
get_notes(s, u) ==
  /\ ~InFlight(s)
  /\ IF cache[u].present
     THEN /\ out' = [Response("get_notes", u, 0, "ok",
                              json_loads(cache[u].value))
                     EXCEPT !.hit = TRUE, !.stale = cache[u].stale,
                            !.first = fresh[u]]
          /\ UNCHANGED req
     ELSE /\ req' = [req EXCEPT ![s] =
               [Idle EXCEPT !.op = "get_notes", !.pc = "query", !.user = u,
                  !.first = fresh[u]]]
          /\ out' = None
  /\ fresh' = [fresh EXCEPT ![u] = FALSE]
  /\ UNCHANGED <<store, nextId, cache>>

\* GET /notes: the query of the miss (lines 132-133)
get_notes_query(s) ==
  /\ req[s].pc = "query"
  /\ req' = [req EXCEPT ![s].pc = "set",
                        ![s].result = NotesOf(store, req[s].user)]
  /\ out' = None
  /\ UNCHANGED <<store, nextId, cache, fresh>>

\* GET /notes: redis_client.set(..., ex=60) and the response (lines 134-135)
get_notes_set(s) ==
  /\ req[s].pc = "set"
  /\ cache' = [cache EXCEPT ![req[s].user] =
                 Entry(safe_serialize(req[s].result), req[s].stale)]
  /\ req' = [req EXCEPT ![s] = Idle]
  /\ out' = Ends(req[s], "ok")
  /\ UNCHANGED <<store, nextId, fresh>>

\* Outgoing without the filter on the owner
OutgoingAnyOwner(st, note) ==
  LET out_titles == extract_links(note.content)
  IN IF out_titles # <<>>
     THEN { n \in st : n.title \in Range(out_titles) }
     ELSE {}

\* outgoing of get_note_with_links (lines 203-210)
Outgoing(st, note) ==
  LET out_titles == extract_links(note.content)
  IN IF out_titles # <<>>
     THEN { n \in st : n.user_id = note.user_id /\ n.title \in Range(out_titles) }
     ELSE {}

\* the text sub occurs in the text s
Contains(s, sub) ==
  \E i \in 1..(Len(s) + 1 - Len(sub)) : SubSeq(s, i, i + Len(sub) - 1) = sub

\* Backlinks with the title searched in the candidate's text, not among its links
BacklinksSubstring(st, note) ==
  { cand \in st : /\ cand.user_id = note.user_id
                  /\ cand.id # note.id
                  /\ Contains(cand.content, note.title) }

\* backlinks of get_note_with_links (lines 213-217)
Backlinks(st, note) ==
  { cand \in st : /\ cand.user_id = note.user_id
                  /\ cand.id # note.id
                  /\ note.title \in Range(extract_links(cand.content)) }

\* the lists in which .all() may return the rows S: the query has no ORDER BY
RECURSIVE Orders(_)
Orders(S) ==
  IF S = {} THEN { <<>> }
  ELSE UNION { { <<x>> \o q : q \in Orders(S \ {x}) } : x \in S }

\* get_note_with_links that also deletes the cache key of its user
get_note_with_links_invalidating(s, u, id) ==
  /\ ~InFlight(s)
  /\ IF ById(store, u, id) = {}
     THEN out' = Response("get_note_with_links", u, id, "not_found", {})
     ELSE LET note == CHOOSE n \in ById(store, u, id) : TRUE
          IN \E q \in Orders(Outgoing(store, note)) :
               out' = [Response("get_note_with_links", u, id, "ok", {note})
                         EXCEPT !.outgoing = Outgoing(store, note),
                                !.outgoing_links = q,
                                !.backlinks = Backlinks(store, note)]
  /\ cache' = [cache EXCEPT ![u] = NoEntry]
  /\ UNCHANGED <<store, nextId, req, fresh>>

\* GET /notes/{note_id}/with_links (lines 198-223); outgoing_links is the
\* list of the outgoing rows as the query returned them
get_note_with_links(s, u, id) ==
  /\ ~InFlight(s)
  /\ IF ById(store, u, id) = {}
     THEN out' = Response("get_note_with_links", u, id, "not_found", {})
     ELSE LET note == CHOOSE n \in ById(store, u, id) : TRUE
              outgoing == Outgoing(store, note)
              backlinks == Backlinks(store, note)
          IN \E q \in Orders(outgoing) :
               out' = [Response("get_note_with_links", u, id, "ok", {note})
                         EXCEPT !.outgoing = outgoing,
                                !.outgoing_links = q,
                                !.backlinks = backlinks]
  /\ UNCHANGED <<store, nextId, cache, req, fresh>>

\* the Redis key of u reaches its expiry time
expire(u) ==
  /\ cache[u].present
  /\ cache' = [cache EXCEPT ![u] = NoEntry]
  /\ out' = None
  /\ UNCHANGED <<store, nextId, req, fresh>>

\* the steps of create, update and delete of slot s, for clients U sending
\* titles T and contents C, with commits that succeed (TRUE) or raise (FALSE)
\* as in F, and ids 1..N
Writes(s, U, T, C, F, N) ==
  \/ \E u \in U, t \in T, c \in C, ok \in F : create_note(s, u, t, c, ok, N)
  \/ upsert_lookup(s)
  \/ \E ok \in F : upsert_commit(s, ok, N)
  \/ invalidate_notes_cache(s)
  \/ \E u \in U, id \in 1..N, t \in T, c \in C : update_note(s, u, id, t, c)
  \/ \E ok \in F : update_commit(s, ok)
  \/ \E u \in U, id \in 1..N : delete_note(s, u, id)
  \/ \E ok \in F : delete_commit(s, ok)

\* the steps of GET /notes of slot s
Lists(s, U) ==
  \/ \E u \in U : get_notes(s, u)
  \/ get_notes_query(s)
  \/ get_notes_set(s)

\* contents of the clients of the concurrent runs
ContentRace == { <<LB, LB, "B", RB, RB>> }

\* requests of one user from several clients, interleaved at their database
\* and Redis calls
Next ==
  \/ \E s \in Slots : Writes(s, {1}, {<<"A">>}, ContentRace, {TRUE}, MaxId)
  \/ \E s \in Slots : Lists(s, {1})
  \/ expire(1)

Spec == Init /\ [][Next]_vars

\* requests of one user served one at a time, without store failures
NextSeq ==
  \/ Writes(1, {1}, TitleIn, ContentIn, {TRUE}, MaxId)
  \/ Lists(1, {1})
  \/ \E id \in Ids : get_note_with_links(1, 1, id)
  \/ expire(1)

SpecSeq == Init /\ [][NextSeq]_vars

\* contents of the clients of the runs with store failures
ContentFail == { <<>>, <<LB, LB, "B", RB, RB>> }

\* requests of one user served one at a time, with commits that may raise
NextFail ==
  \/ Writes(1, {1}, {<<"A">>}, ContentFail, BOOLEAN, MaxId)
  \/ Lists(1, {1})
  \/ expire(1)

SpecFail == Init /\ [][NextFail]_vars

\* contents of the clients that relink a note
ContentRelink ==
  { <<LB, LB, "C", RB, RB>>,
    <<LB, LB, "B", RB, RB, LB, LB, "B", RB, RB>> }

\* requests of one user served one at a time, whose notes are titled A and
\* link to C or, twice, to B
NextRelink ==
  \/ Writes(1, {1}, {<<"A">>}, ContentRelink, {TRUE}, MaxIdRelink)
  \/ Lists(1, {1})
  \/ \E id \in 1..MaxIdRelink : get_note_with_links(1, 1, id)
  \/ expire(1)

SpecRelink == Init /\ [][NextRelink]_vars

\* contents of the clients of the runs with two owners
ContentOwners == { <<LB, LB, "B", RB, RB>> }

\* requests of two users served one at a time: the notes of user 1 are titled
\* A and link to B, the notes of user 2 are titled B and link to B
NextOwners ==
  \/ Writes(1, {1}, {<<"A">>}, ContentOwners, {TRUE}, MaxId)
  \/ Writes(1, {2}, {<<"B">>}, ContentOwners, {TRUE}, MaxId)
  \/ Lists(1, Users)
  \/ \E u \in Users, id \in Ids : get_note_with_links(1, u, id)
  \/ \E u \in Users : expire(u)

SpecOwners == Init /\ [][NextOwners]_vars

(***************************************************************************)
(* get_note_with_links on any notes table                                  *)
(***************************************************************************)
\* contents of the notes of the tables of SpecLinks
ContentLinks ==
  { <<>>,
    <<LB, LB, "A", RB, RB>>,
    <<LB, LB, "B", RB, RB>>,
    <<LB, LB, SP, "B", SP, RB, RB>> }

\* the rows a table may hold under id i: notes of user 1 and, under id 1, a
\* note of user 2 titled A that links to B or titled B that links to A
RowsOf(i) ==
  { Note(i, t, c, 1) : t \in TitleIn, c \in ContentLinks }
    \cup IF i = 1
         THEN { Note(1, <<"A">>, <<LB, LB, "B", RB, RB>>, 2),
                Note(1, <<"B">>, <<LB, LB, "A", RB, RB>>, 2) }
         ELSE {}

\* the tables with at most one row per id in 1..n
RECURSIVE Tables(_)
Tables(n) ==
  IF n = 0 THEN { {} }
  ELSE LET less == Tables(n - 1)
       IN less \cup { st \cup {r} : st \in less, r \in RowsOf(n) }

InitLinks ==
  /\ store \in Tables(MaxId)
  /\ nextId = MaxId + 1
  /\ cache = [u \in Users |-> NoEntry]
  /\ req = [s \in Slots |-> Idle]
  /\ fresh = [u \in Users |-> FALSE]
  /\ out = None

NextLinks == \E id \in Ids : get_note_with_links(1, 1, id)

SpecLinks == InitLinks /\ [][NextLinks]_vars

\* titles and contents of the notes of the tables of SpecOrder
TitleOrder == { <<"A">>, <<"B">>, <<"C">> }

ContentOrder == { <<>>, <<LB, LB, "B", RB, RB, LB, LB, "A", RB, RB>> }

RowsOrder(i) == { Note(i, t, c, 1) : t \in TitleOrder, c \in ContentOrder }

\* the tables of notes of user 1 with at most one row per id in 1..n
RECURSIVE TablesOrder(_)
TablesOrder(n) ==
  IF n = 0 THEN { {} }
  ELSE LET less == TablesOrder(n - 1)
       IN less \cup { st \cup {r} : st \in less, r \in RowsOrder(n) }

InitOrder ==
  /\ store \in TablesOrder(MaxId)
  /\ nextId = MaxId + 1
  /\ cache = [u \in Users |-> NoEntry]
  /\ req = [s \in Slots |-> Idle]
  /\ fresh = [u \in Users |-> FALSE]
  /\ out = None

NextOrder == \E id \in Ids : get_note_with_links(1, 1, id)

SpecOrder == InitOrder /\ [][NextOrder]_vars

(***************************************************************************)
(* upsert_stub_notes called twice with the same arguments                  *)
(***************************************************************************)
\* link titles passed to upsert_stub_notes
LinkTitles == { <<"B">>, <<SP, "B", SP>>, <<SP>>, <<"C">> }

RECURSIVE SeqsUpTo(_, _)
SeqsUpTo(S, n) ==
  IF n = 0 THEN { <<>> }
  ELSE SeqsUpTo(S, n - 1)
         \cup { Append(q, x) : q \in { r \in SeqsUpTo(S, n - 1) : Len(r) = n - 1 },
                               x \in S }

\* the notes table when upsert_stub_notes is called: at most one note of the
\* caller, possibly beside a note of another user titled B
StubStores ==
  LET own == { {} } \cup { {Note(1, t, c, 1)} : t \in TitleIn, c \in ContentIn }
  IN own \cup { st \cup {Note(2, <<"B">>, <<>>, 2)} : st \in own }

\* the ids of st are taken
FirstFree(st) ==
  IF \E n \in st : n.id = 2 THEN 3 ELSE IF st # {} THEN 2 ELSE 1

InitStub ==
  /\ store \in StubStores
  /\ nextId = FirstFree(store)
  /\ cache = [u \in Users |-> NoEntry]
  /\ fresh = [u \in Users |-> FALSE]
  /\ out = None
  /\ \E q \in SeqsUpTo(LinkTitles, MaxId + 1 - nextId) :
       req = [s \in Slots |->
                IF s = 1
                THEN [Idle EXCEPT !.op = "upsert_stub_notes",
                        !.pc = IF q = <<>> THEN "stub_commit" ELSE "links",
                        !.user = 1, !.linked = q, !.titles = q]
                ELSE Idle]

\* upsert_stub_notes(db, user_id, linked_titles) is called again with the list
\* of the call that has returned; result keeps the table as that call left it
upsert_again(s) ==
  /\ req[s].op = "upsert_stub_notes"
  /\ req[s].pc = "invalidate"
  /\ req' = [req EXCEPT
       ![s].op = "upsert_stub_notes_again",
       ![s].pc = IF req[s].linked = <<>> THEN "stub_commit" ELSE "links",
       ![s].titles = req[s].linked,
       ![s].result = store]
  /\ out' = None
  /\ UNCHANGED <<store, nextId, cache, fresh>>

NextStub ==
  \/ upsert_lookup(1)
  \/ upsert_commit(1, TRUE, MaxId)
  \/ upsert_again(1)

SpecStub == InitStub /\ [][NextStub]_vars

(***************************************************************************)
(* extract_links on any text                                               *)
(***************************************************************************)
\* length of the texts passed to extract_links
MaxLen == 8

\* characters of the texts passed to extract_links
Alphabet == { LB, RB, "a" }

InitExtract ==
  /\ store = {}
  /\ nextId = 1
  /\ cache = [u \in Users |-> NoEntry]
  /\ fresh = [u \in Users |-> FALSE]
  /\ out = None
  /\ \E t \in SeqsUpTo(Alphabet, MaxLen) :
       req = [s \in Slots |->
                IF s = 1
                THEN [Idle EXCEPT !.op = "extract_links", !.pc = "call",
                        !.content = t]
                ELSE Idle]

\* extract_links(content) is called and returns its list
extract_links_call(s) ==
  /\ req[s].op = "extract_links"
  /\ req[s].pc = "call"
  /\ req' = [req EXCEPT ![s].pc = "return",
                        ![s].linked = extract_links(req[s].content)]
  /\ out' = None
  /\ UNCHANGED <<store, nextId, cache, fresh>>

NextExtract == extract_links_call(1)

SpecExtract == InitExtract /\ [][NextExtract]_vars

(***************************************************************************)
(* Properties                                                              *)
(***************************************************************************)
WriteOps == {"create_note", "update_note", "delete_note"}

\* C1: a get-all answered from the cache entry never returns a list that a
\* commit on the user's notes (a note write or a stub insertion) has overtaken
\* since the list was loaded from the store.
C1_NoStaleServed ==
  (out.op = "get_notes" /\ out.hit) => ~out.stale

\* C2: when a create, update or delete returns successfully the cache entry of
\* its user is absent, and the next get-all of that user that starts after the
\* mutation has returned loads the list from the store.
C2_NextGetAllLoads ==
  /\ (out.op \in WriteOps /\ out.status = "ok") => ~cache[out.user].present
  /\ (out.op = "get_notes" /\ out.first) => ~out.hit

\* C3: when a store failure aborts a create, update or delete that has already
\* committed a change to the user's notes, no cache entry of that user written
\* before the change is left in place.
C3_NoTornCache ==
  (out.op \in WriteOps /\ out.status = "store_failure" /\ out.wrote)
    => ~(cache[out.user].present /\ cache[out.user].stale)

\* C4: a second run of upsert_stub_notes with the titles of a run that has
\* completed adds no stub and leaves the notes table as the first run left it.
C4_StubIdempotent ==
  \A s \in Slots :
    req[s].op = "upsert_stub_notes_again"
      => /\ req[s].pending = <<>>
         /\ store = req[s].result

\* the second run has completed after a first run that inserted a stub
C4_Witness ==
  /\ req[1].op = "upsert_stub_notes_again"
  /\ req[1].pc = "invalidate"
  /\ \E n \in store : n.id >= 2 /\ n.user_id = 1 /\ n.content = <<>>
                      /\ n.title \in { strip(t) : t \in Range(req[1].linked) }
  /\ Len(req[1].linked) >= 2

\* the distinct stripped non-empty titles of a list that have no note of u
Missing(st, u, linked) ==
  { t \in { strip(r) : r \in Range(linked) } : t # <<>> /\ ByTitle(st, u, t) = {} }

\* C5: the commit of one upsert_stub_notes call inserts exactly one stub (empty
\* content, the caller as owner) per distinct stripped non-empty title of its
\* list that had no note of the caller, and nothing else: a missing title that
\* occurs twice gets one stub.
C5_OneStubPerTitle ==
  [][\A s \in Slots :
       (req[s].pc = "stub_commit" /\ req'[s].pc = "invalidate")
         => /\ { n.title : n \in store' \ store }
                 = Missing(store, req[s].user, req[s].linked)
            /\ Cardinality(store' \ store)
                 = Cardinality(Missing(store, req[s].user, req[s].linked))
            /\ \A n \in store' \ store :
                 n.content = <<>> /\ n.user_id = req[s].user]_vars

\* C6: get-with-links of a note never lists that note (by id) in its
\* outgoing_links nor in its backlinks.
C6_NoSelfLink ==
  (out.op = "get_note_with_links" /\ out.status = "ok")
    => \A n \in out.result :
         /\ \A m \in out.outgoing : m.id # n.id
         /\ \A m \in out.backlinks : m.id # n.id

\* C7: when a create has returned, get-with-links of the created note lists in
\* outgoing_links, for every link title of its content that is not empty after
\* stripping, a note of the owner titled with the stripped title.
C7_CreateRoundTrip ==
  (out.op = "create_note" /\ out.status = "ok")
    => \A n \in out.result :
         \A t \in Range(extract_links(n.content)) :
           strip(t) # <<>>
             => \E m \in Outgoing(store, n) :
                  m.title = strip(t) /\ m.user_id = out.user

UniqueTitles(st, u) ==
  \A n \in NotesOf(st, u), m \in NotesOf(st, u) : n.title = m.title => n = m

\* C9: when an update replaces a content linking to y by a content whose only
\* link title is z, with y # z, in a table where the titles of the owner's
\* notes are distinct, then once its stubs are committed get-with-links of the
\* note has as outgoing exactly one note, titled z, the notes titled y are as
\* they were, and the note is in the backlinks of none of them.
C9_UpdateRelinks ==
  [][\A s \in Slots :
       ( /\ req[s].op = "update_note"
         /\ req[s].pc = "stub_commit"
         /\ req'[s].pc = "invalidate" )
         => \A o \in req[s].old, x \in req[s].result :
              \A y \in Range(extract_links(o.content)),
                 z \in Range(extract_links(x.content)) :
                ( /\ y # z
                  /\ Range(extract_links(x.content)) = {z}
                  /\ UniqueTitles(store, req[s].user) )
                  => /\ \E n \in store' :
                          Outgoing(store', x) = {n} /\ n.title = z
                     /\ ByTitle(store', req[s].user, y)
                          = ByTitle(store, req[s].user, y)
                     /\ \A n \in ByTitle(store', req[s].user, y) :
                          x \notin Backlinks(store', n)]_vars

\* C10: no create or update whose title or content is empty after stripping
\* succeeds.
C10_EmptyFieldsRejected ==
  (out.op \in {"create_note", "update_note"} /\ out.status = "ok")
    => \A n \in out.result : strip(n.title) # <<>> /\ strip(n.content) # <<>>
\* a note with this id is stored for this owner
Owns(st, u, id) == \E n \in st : n.id = id /\ n.user_id = u

\* C11: an update, delete or get-with-links of owner u for an id that is not
\* the id of a note of u (no such note, or a note of another owner) answers
\* not-found at once, and that step leaves every stored note and every cache
\* entry as it was.
C11_NotFoundChangesNothing ==
  [][\A s \in Slots, u \in Users, id \in Ids :
       /\ ( /\ out'.op \in {"update_note", "delete_note", "get_note_with_links"}
            /\ out'.status = "not_found" )
            => store' = store /\ cache' = cache
       /\ ( /\ ~InFlight(s)
            /\ req'[s].op \in {"update_note", "delete_note"}
            /\ req'[s].user = u /\ req'[s].note_id = id )
            => Owns(store, u, id)
       /\ ( /\ out'.op = "get_note_with_links" /\ out'.status = "ok"
            /\ out'.user = u /\ out'.note_id = id )
            => Owns(store, u, id)]_vars

\* a request for the note of another owner was answered not-found while the
\* requester's cache entry was set
C11_Witness ==
  /\ out.op \in {"update_note", "delete_note", "get_note_with_links"}
  /\ out.status = "not_found"
  /\ \E n \in store : n.id = out.note_id /\ n.user_id # out.user
  /\ cache[out.user].present

\* the inner texts of the pairs of s from position i on, where a "]]" closes
\* the nearest "[[" before it (open, 0 when there is none) that no earlier
\* pair has used
RECURSIVE PairsNearest(_, _, _)
PairsNearest(s, i, open) ==
  IF i + 1 > Len(s) THEN <<>>
  ELSE IF s[i] = LB /\ s[i + 1] = LB THEN PairsNearest(s, i + 1, i)
  ELSE IF s[i] = RB /\ s[i + 1] = RB /\ open # 0 /\ open + 2 <= i
       THEN <<SubSeq(s, open + 2, i - 1)>> \o PairsNearest(s, i + 2, 0)
       ELSE PairsNearest(s, i + 1, open)

\* C12: extract_links returns the inner texts of the non-overlapping [[ ]]
\* pairs of its input, left to right with duplicates, the empty text for each
\* "[[]]", every "]]" closing the nearest "[[" before it; the empty input
\* gives the empty list.
C12_ExtractNearestPairs ==
  \A s \in Slots :
    (req[s].op = "extract_links" /\ req[s].pc = "return")
      => req[s].linked = PairsNearest(req[s].content, 1, 0)

\* C13: with requests of one owner interleaved, the commit of a stub
\* materialization never inserts a stub titled T for an owner who already has a
\* committed note titled T.
C13_StubFillsAbsence ==
  [][\A s \in Slots :
       (req[s].pc = "stub_commit" /\ req'[s].pc = "invalidate")
         => \A n \in store' \ store : ByTitle(store, n.user_id, n.title) = {}]_vars

\* the list q without the repetitions of its elements, first occurrences kept
RECURSIVE Dedup(_)
Dedup(q) ==
  IF q = <<>> THEN <<>>
  ELSE LET r == Dedup(SubSeq(q, 1, Len(q) - 1))
       IN IF q[Len(q)] \in Range(r) THEN r ELSE Append(r, q[Len(q)])

\* the titles of q that have a note of u
Matched(q, st, u) == SelectSeq(q, LAMBDA t : ByTitle(st, u, t) # {})

\* C14: the outgoing_links of get-with-links of a note are one note per
\* distinct link title of its content that has a note of the owner, in the
\* order of the first occurrences of the titles in the content; stated for
\* tables where the owner's titles are distinct and the note does not link to
\* its own title.
C14_OutgoingInContentOrder ==
  (out.op = "get_note_with_links" /\ out.status = "ok")
    => \A n \in out.result :
         ( /\ UniqueTitles(store, out.user)
           /\ n.title \notin Range(extract_links(n.content)) )
           => [i \in DOMAIN out.outgoing_links |-> out.outgoing_links[i].title]
                = Matched(Dedup(extract_links(n.content)), store, out.user)

\* C15: a get-with-links request, answered ok or not-found, leaves the notes
\* table and every cache entry as they were: it inserts no stub, changes and
\* deletes no note, and sets and deletes no cache key.
C15_WithLinksReadOnly ==
  [][out'.op = "get_note_with_links"
       => store' = store /\ cache' = cache /\ nextId' = nextId]_vars

\* get-with-links has answered for a note with a link title that no note of
\* the owner has, while the owner's cache entry is set
C15_Witness ==
  /\ out.op = "get_note_with_links"
  /\ out.status = "ok"
  /\ cache[out.user].present
  /\ \E n \in out.result :
       \E t \in Range(extract_links(n.content)) :
         strip(t) # <<>> /\ ByTitle(store, out.user, strip(t)) = {}

\* the step is a step of a request of u
Acts(u) ==
  \/ out'.op # "none" /\ out'.user = u
  \/ \E s \in Slots : req'[s] # req[s] /\ u \in {req[s].user, req'[s].user}

\* C16: a step of a request of owner u (create, update, delete, get-all,
\* get-with-links, with its stub materialization) leaves the notes and the
\* cache entry of every other owner v as they were, and every note it returns
\* (the list, the note, its outgoing links and backlinks) is a note of u.
C16_OwnerIsolation ==
  [][\A u \in Users, v \in Users :
       (u # v /\ Acts(u))
         => /\ NotesOf(store', v) = NotesOf(store, v)
            /\ cache'[v] = cache[v]
            /\ \A n \in out'.result \cup out'.outgoing \cup out'.backlinks
                         \cup Range(out'.outgoing_links) : n.user_id = u]_vars

\* get-with-links of a note of u has returned the note of u with a title that
\* a note of another owner has too
C16_Witness ==
  /\ out.op = "get_note_with_links"
  /\ out.status = "ok"
  /\ \E n \in out.outgoing, m \in store :
       m.title = n.title /\ m.user_id # out.user /\ n.user_id = out.user

C18_CacheTransparent ==
  [][/\ (out'.op = "get_notes" /\ out'.status = "ok")
          => out'.result = NotesOf(store', out'.user)
     /\ (out'.op = "get_notes" /\ out'.hit)
          => /\ cache[out'.user].present
             /\ out'.result = json_loads(cache[out'.user].value)
             /\ req' = req /\ cache' = cache /\ store' = store
     /\ \A s \in Slots :
          /\ (~InFlight(s) /\ req'[s].op = "get_notes")
               => ~cache[req'[s].user].present
          /\ (req[s].op = "get_notes" /\ req[s].pc = "set" /\ ~InFlight(s)')
               => /\ cache'[req[s].user].present
                  /\ cache'[req[s].user].ex = CacheTTL
                  /\ json_loads(cache'[req[s].user].value)
                       = NotesOf(store', req[s].user)
                  /\ ~out'.hit]_vars

\* a get-all was answered from the cache with a list that holds a stub and a
\* note with content
C18_Witness ==
  /\ out.op = "get_notes"
  /\ out.hit
  /\ \E n \in out.result, m \in out.result :
       n.content = <<>> /\ m.content # <<>>

====
